---- MODULE Spec2Model ----
(***************************************************************************)
(* A model of editor-server: a JSON-RPC 2.0 file service over WebSocket.   *)
(*                                                                         *)
(*   src/src/ws/connection.rs   ws_handler, handle_socket (the loop)       *)
(*   src/src/rpc/handlers.rs    process_request and the three handlers     *)
(*   src/src/rpc/error.rs       create_error_response, the error codes     *)
(*   src/src/rpc/request.rs     JsonRpcRequest, JsonRpcResponse            *)
(*                                                                         *)
(* Every connection runs handle_socket as its own task on the tokio        *)
(* runtime; the handlers are synchronous and reach the file system through *)
(* std::fs, so tasks interleave at the granularity of one file-system      *)
(* call.  The model keeps one step per file-system call and joins the      *)
(* task-local computation around a call to that call's step.               *)
(***************************************************************************)
EXTENDS Integers, Sequences, FiniteSets, TLC

(***************************************************************************)
(* Bounds of the model.                                                    *)
(***************************************************************************)
\* Text frames the first connection receives before its peer stops sending.
MaxFrames == 2

\* Text frames the second connection receives before its peer stops sending.
MaxPeerFrames == 1

\* The connections (tasks running handle_socket) that are ever upgraded.
Tasks == {"t1", "t2"}

\* The text frames a peer sends where the upgrades arrive in any order
MaxEarlyFrames == 1

(***************************************************************************)
(* JSON values (serde_json::Value), tagged so that values of different     *)
(* JSON types are always comparable.                                       *)
(***************************************************************************)
Absent == [t |-> "absent"]            \* an object field that is not there
JNull == [t |-> "null"]
JNum(n) == [t |-> "num", n |-> n]
JStr(s) == [t |-> "str", s |-> s]
JBool(b) == [t |-> "bool", b |-> b]
JArr(a) == [t |-> "arr", a |-> a]
\* An object that may carry the fields path and content (the only fields a
\* handler looks at; any other field is ignored by serde).
JObj(path, content) == [t |-> "obj", path |-> path, content |-> content]

IsStr(v) == v.t = "str"

\* Option<T>
None == <<>>
Some(v) == <<v>>
IsSome(o) == Len(o) = 1
Unwrap(o) == o[1]

(***************************************************************************)
(* src/src/rpc/error.rs                                                    *)
(***************************************************************************)
PARSE_ERROR_CODE == -32700
INVALID_REQUEST_CODE == -32600
METHOD_NOT_FOUND_CODE == -32601
INVALID_PARAMS_CODE == -32602
FILE_NOT_FOUND_CODE == -32001
IO_ERROR_CODE == -32002
\* handlers.rs imports this constant from rpc::error, whose definition of it
\* is not among the sources; the value is the one the specification's error
\* registry gives.
DIRECTORY_ERROR_CODE == -32003

JsonRpcError(code, message) == [code |-> code, message |-> message]

\* struct JsonRpcResponse { jsonrpc, result: Option, error: Option, id }
JsonRpcResponse(result, error, id) ==
    [jsonrpc |-> "2.0", result |-> result, error |-> error, id |-> id]

create_error_response(code, message, id) ==
    JsonRpcResponse(None, Some(JsonRpcError(code, message)), id)

(***************************************************************************)
(* src/src/rpc/request.rs: decoding a text frame into a JsonRpcRequest.    *)
(* A text frame is either not JSON at all (json = FALSE) or a JSON object  *)
(* with the fields it carries; a field it lacks is Absent.                 *)
(***************************************************************************)
TextFrame(jsonrpc, method, params, id) ==
    [json |-> TRUE, jsonrpc |-> jsonrpc, method |-> method,
     params |-> params, id |-> id]

Garbage == [json |-> FALSE, jsonrpc |-> Absent, method |-> Absent,
            params |-> Absent, id |-> Absent]

Ok(v) == [ok |-> TRUE, value |-> v]
Err(e) == [ok |-> FALSE, err |-> e]

\* A slip: jsonrpc and params are optional, as if they had a serde default.
from_str_lenient(text) ==
    IF text.json /\ IsStr(text.method)
    THEN Ok([jsonrpc |-> IF IsStr(text.jsonrpc) THEN text.jsonrpc.s ELSE "2.0",
             method |-> text.method.s,
             params |-> IF text.params = Absent THEN JNull ELSE text.params,
             id |-> IF text.id \in {Absent, JNull} THEN None ELSE Some(text.id)])
    ELSE Err("parse")

\* serde_json::from_str::<JsonRpcRequest>: jsonrpc and method must be
\* strings, params must be present (a serde_json::Value field has no
\* default), id is an Option and a null or missing id is None.
from_str(text) ==
    IF /\ text.json
       /\ IsStr(text.jsonrpc)
       /\ IsStr(text.method)
       /\ text.params # Absent
    THEN Ok([jsonrpc |-> text.jsonrpc.s,
             method |-> text.method.s,
             params |-> text.params,
             id |-> IF text.id \in {Absent, JNull} THEN None ELSE Some(text.id)])
    ELSE Err("parse")

(***************************************************************************)
(* The file system the handlers reach through std::fs: a fixed set of      *)
(* path names, each absent, a directory or a regular file with a content.  *)
(* "." is the working directory of the process; it always exists.          *)
(***************************************************************************)
Nodes == {"d", "d/a", "d/ab", "d/b.txt", "d/c", "nx", "nx/f"}

\* Path::parent
Parent(p) ==
    CASE p \in {"d/a", "d/ab", "d/b.txt", "d/c"} -> "d"
      [] p = "nx/f" -> "nx"
      [] OTHER -> "."

\* DirEntry::file_name
FileName(p) ==
    CASE p = "d/a" -> "a"
      [] p = "d/ab" -> "ab"
      [] p = "d/b.txt" -> "b.txt"
      [] p = "d/c" -> "c"
      [] p = "nx/f" -> "f"
      [] OTHER -> p

\* str::as_bytes of the names above
Bytes(s) ==
    CASE s = "a" -> <<97>>
      [] s = "ab" -> <<97, 98>>
      [] s = "b.txt" -> <<98, 46, 116, 120, 116>>
      [] s = "c" -> <<99>>
      [] s = "d" -> <<100>>
      [] s = "f" -> <<102>>
      [] s = "nx" -> <<110, 120>>

NoNode == [kind |-> "absent", content |-> ""]
DirNode == [kind |-> "dir", content |-> ""]
FileNode(content) == [kind |-> "file", content |-> content]

\* Path::exists, Path::is_dir
exists(files, p) == files[p].kind # "absent"
is_dir(files, p) == files[p].kind = "dir"

IoError(msg) == [kind |-> "IoError", msg |-> msg]

\* A slip: the file is opened for writing without being truncated.
File_create_no_truncate(files, p) ==
    IF Parent(p) # "." /\ ~is_dir(files, Parent(p))
    THEN Err(IoError("No such file or directory"))
    ELSE IF is_dir(files, p)
    THEN Err(IoError("Is a directory"))
    ELSE IF exists(files, p) THEN Ok(files)
    ELSE Ok([files EXCEPT ![p] = FileNode("")])

\* fs::File::create: creates the file or truncates it; fails when the parent
\* is no directory or the path names a directory.
File_create(files, p) ==
    IF Parent(p) # "." /\ ~is_dir(files, Parent(p))
    THEN Err(IoError("No such file or directory"))
    ELSE IF is_dir(files, p)
    THEN Err(IoError("Is a directory"))
    ELSE Ok([files EXCEPT ![p] = FileNode("")])

\* Write::write_all on the handle File::create returned: the handle's
\* offset is 0, so the bytes replace the first Len(content) bytes of
\* whatever the file holds by now and leave the rest.
write_all(files, p, content) ==
    LET old == files[p].content
    IN [files EXCEPT ![p] =
            FileNode(content \o SubSeq(old, Len(content) + 1, Len(old)))]

\* fs::read_to_string
read_to_string(files, p) ==
    CASE files[p].kind = "file" -> Ok(files[p].content)
      [] files[p].kind = "dir" -> Err(IoError("Is a directory"))
      [] OTHER -> Err(IoError("No such file or directory"))

\* fs::read_dir: the direct children of p, which the iterator yields in an
\* order of the operating system's choosing.
read_dir(files, p) == {q \in Nodes : Parent(q) = p /\ exists(files, q)}

\* Metadata::len
metadata_len(files, p) == Len(files[p].content)

(***************************************************************************)
(* src/src/rpc/handlers.rs: parameters, failures and the error mapper.     *)
(***************************************************************************)
InvalidParams(msg) == [kind |-> "InvalidParams", msg |-> msg]
FileNotFound == [kind |-> "FileNotFound", msg |-> ""]
DirectoryError(msg) == [kind |-> "DirectoryError", msg |-> msg]

\* serde_json::from_value::<ReadFileParams> (ListFilesParams has the same
\* shape): an object needs a string field path and may carry anything else;
\* an array is read by position and must hold exactly the one field.
ReadFileParams(params) ==
    CASE params.t = "obj" ->
            IF params.path = Absent THEN Err(InvalidParams("missing field path"))
            ELSE IF ~IsStr(params.path)
            THEN Err(InvalidParams("invalid type: expected a string"))
            ELSE Ok([path |-> params.path.s])
      [] params.t = "arr" ->
            IF Len(params.a) = 0 THEN Err(InvalidParams("invalid length 0"))
            ELSE IF ~IsStr(params.a[1])
            THEN Err(InvalidParams("invalid type: expected a string"))
            ELSE IF Len(params.a) # 1 THEN Err(InvalidParams("invalid length"))
            ELSE Ok([path |-> params.a[1].s])
      [] OTHER -> Err(InvalidParams("invalid type: expected struct"))

ListFilesParams(params) == ReadFileParams(params)

\* serde_json::from_value::<WriteFileParams>
WriteFileParams(params) ==
    CASE params.t = "obj" ->
            IF params.path = Absent THEN Err(InvalidParams("missing field path"))
            ELSE IF ~IsStr(params.path)
            THEN Err(InvalidParams("invalid type: expected a string"))
            ELSE IF params.content = Absent
            THEN Err(InvalidParams("missing field content"))
            ELSE IF ~IsStr(params.content)
            THEN Err(InvalidParams("invalid type: expected a string"))
            ELSE Ok([path |-> params.path.s, content |-> params.content.s])
      [] params.t = "arr" ->
            IF Len(params.a) < 2 THEN Err(InvalidParams("invalid length"))
            ELSE IF ~IsStr(params.a[1]) \/ ~IsStr(params.a[2])
            THEN Err(InvalidParams("invalid type: expected a string"))
            ELSE IF Len(params.a) # 2 THEN Err(InvalidParams("invalid length"))
            ELSE Ok([path |-> params.a[1].s, content |-> params.a[2].s])
      [] OTHER -> Err(InvalidParams("invalid type: expected struct"))

\* A slip: the error of a handler is reported without the id of the request.
to_jsonrpc_error_null_id(e, id) ==
    CASE e.kind = "InvalidParams" ->
            create_error_response(INVALID_PARAMS_CODE, e.msg, JNull)
      [] e.kind = "FileNotFound" ->
            create_error_response(FILE_NOT_FOUND_CODE, "File not found", JNull)
      [] e.kind = "DirectoryError" ->
            create_error_response(DIRECTORY_ERROR_CODE, e.msg, JNull)
      [] e.kind = "IoError" ->
            create_error_response(IO_ERROR_CODE, e.msg, JNull)

\* HandlerError::to_jsonrpc_error
to_jsonrpc_error(e, id) ==
    CASE e.kind = "InvalidParams" ->
            create_error_response(INVALID_PARAMS_CODE, e.msg, id)
      [] e.kind = "FileNotFound" ->
            create_error_response(FILE_NOT_FOUND_CODE, "File not found", id)
      [] e.kind = "DirectoryError" ->
            create_error_response(DIRECTORY_ERROR_CODE, e.msg, id)
      [] e.kind = "IoError" ->
            create_error_response(IO_ERROR_CODE, e.msg, id)

\* process_request: let id = request.id.unwrap_or(Value::Null)
request_id(request) == IF IsSome(request.id) THEN Unwrap(request.id) ELSE JNull

\* A slip: the error member is filled in on success as well.
respond_both(result, id) ==
    IF result.ok
    THEN JsonRpcResponse(Some(result.value), Some(JsonRpcError(0, "OK")), id)
    ELSE to_jsonrpc_error(result.err, id)

\* process_request, match result: the outcome of a handler as a response
respond(result, id) ==
    IF result.ok
    THEN JsonRpcResponse(Some(result.value), None, id)
    ELSE to_jsonrpc_error(result.err, id)

\* process_request, the arm of an unregistered method
method_not_found(id) ==
    create_error_response(METHOD_NOT_FOUND_CODE, "Method not Found", id)

\* A slip: the frame that does not decode is reported as an invalid request.
parse_error_as_invalid_request ==
    create_error_response(INVALID_REQUEST_CODE, "Invalid Request", JNull)

\* connection.rs, the arm of a frame that does not decode
parse_error == create_error_response(PARSE_ERROR_CODE, "Parse error", JNull)

(***************************************************************************)
(* handle_list_files: the listing built from the entries read_dir yields.  *)
(***************************************************************************)
\* str::cmp, the byte-wise lexicographic order
StrLess(a, b) ==
    LET x == Bytes(a)
        y == Bytes(b)
    IN \E i \in 1..(Len(y)) :
          /\ \A j \in 1..(i - 1) : j <= Len(x) /\ x[j] = y[j]
          /\ \/ i > Len(x)
             \/ i <= Len(x) /\ x[i] < y[i]

\* Vec::sort_by on the names (a stable sort)
RECURSIVE sort_by(_)
sort_by(s) ==
    IF Len(s) <= 1 THEN s
    ELSE LET rest == sort_by(SubSeq(s, 1, Len(s) - 1))
             x == s[Len(s)]
             k == Cardinality({i \in 1..Len(rest) : ~StrLess(x.name, rest[i].name)})
         IN SubSeq(rest, 1, k) \o <<x>> \o SubSeq(rest, k + 1, Len(rest))

directory_entry(q) == [name |-> FileName(q), type |-> "directory"]
file_entry(files, q) ==
    [name |-> FileName(q), type |-> "file", size |-> metadata_len(files, q)]

\* A slip: the files are left in the order read_dir gave them.
list_entries_files_unsorted(files, entries) ==
    LET ds == SelectSeq(entries, LAMBDA q : is_dir(files, q))
        fl == SelectSeq(entries, LAMBDA q : ~is_dir(files, q))
        directories == [i \in 1..Len(ds) |-> directory_entry(ds[i])]
        file_list == [i \in 1..Len(fl) |-> file_entry(files, fl[i])]
    IN sort_by(directories) \o file_list

\* The loop over the entries, in the order they come, and what follows it:
\* directories and files are collected apart, each sorted, then joined.
list_entries(files, entries) ==
    LET ds == SelectSeq(entries, LAMBDA q : is_dir(files, q))
        fl == SelectSeq(entries, LAMBDA q : ~is_dir(files, q))
        directories == [i \in 1..Len(ds) |-> directory_entry(ds[i])]
        file_list == [i \in 1..Len(fl) |-> file_entry(files, fl[i])]
    IN sort_by(directories) \o sort_by(file_list)

\* All orders in which a set can be enumerated
Orders(S) ==
    {o \in [1..Cardinality(S) -> S] : \A i, j \in 1..Cardinality(S) : i # j => o[i] # o[j]}

(***************************************************************************)
(* The handlers, cut at their file-system calls.  A handler step yields    *)
(* the place the task is at next, the handler result once there is one,    *)
(* and the file system it leaves.                                          *)
(***************************************************************************)
Done(result, files) == [pc |-> "respond", result |-> Some(result), fs |-> files]
Pending(at, files) == [pc |-> at, result |-> None, fs |-> files]

\* A slip: parameters that do not deserialize are taken for a missing file.
handle_read_file_lenient(params, files) ==
    LET p == ReadFileParams(params)
    IN IF ~p.ok THEN Done(Err(FileNotFound), files)
       ELSE IF ~exists(files, p.value.path) THEN Done(Err(FileNotFound), files)
       ELSE Pending("read", files)

\* handle_read_file up to Path::exists
handle_read_file(params, files) ==
    LET p == ReadFileParams(params)
    IN IF ~p.ok THEN Done(p, files)
       ELSE IF ~exists(files, p.value.path) THEN Done(Err(FileNotFound), files)
       ELSE Pending("read", files)

\* handle_read_file from fs::read_to_string on
handle_read_file_read(params, files) ==
    LET r == read_to_string(files, ReadFileParams(params).value.path)
    IN IF r.ok THEN Ok(JStr(r.value)) ELSE r

\* A slip: the file is created as soon as the params name a path, before
\* they are validated as a whole.
handle_write_file_create_first(params, files) ==
    LET p == WriteFileParams(params)
        named == params.t = "obj" /\ IsStr(params.path)
        c == File_create(files, IF named THEN params.path.s ELSE "d")
    IN IF ~p.ok THEN Done(p, IF named /\ c.ok THEN c.value ELSE files)
       ELSE IF ~c.ok THEN Done(c, files) ELSE Pending("write", c.value)

\* handle_write_file up to fs::File::create
handle_write_file(params, files) ==
    LET p == WriteFileParams(params)
    IN IF ~p.ok THEN Done(p, files)
       ELSE LET c == File_create(files, p.value.path)
            IN IF ~c.ok THEN Done(c, files) ELSE Pending("write", c.value)

\* handle_write_file from write_all on
handle_write_file_write(params, files) ==
    LET p == WriteFileParams(params).value
    IN Done(Ok(JBool(TRUE)), write_all(files, p.path, p.content))

\* A slip: the failures of the path are reported as those of readFile are.
handle_list_files_as_read(params, files) ==
    LET p == ListFilesParams(params)
    IN IF ~p.ok THEN Done(p, files)
       ELSE IF ~exists(files, p.value.path) THEN Done(Err(FileNotFound), files)
       ELSE IF ~is_dir(files, p.value.path)
       THEN Done(Err(IoError("Not a directory")), files)
       ELSE Pending("list", files)

\* handle_list_files up to Path::exists and Path::is_dir
handle_list_files(params, files) ==
    LET p == ListFilesParams(params)
    IN IF ~p.ok THEN Done(p, files)
       ELSE IF ~exists(files, p.value.path)
       THEN Done(Err(DirectoryError("Directory does not exist")), files)
       ELSE IF ~is_dir(files, p.value.path)
       THEN Done(Err(DirectoryError("Path is not a directory")), files)
       ELSE Pending("list", files)

\* handle_list_files from fs::read_dir on; entries is the order of the
\* iterator
handle_list_files_list(files, entries) == Ok(JArr(list_entries(files, entries)))

\* A slip: a failure of the handler leaves the loop (as the ? operator
\* would) instead of becoming a response.
Step_propagate(h, id) ==
    IF IsSome(h.result) /\ ~Unwrap(h.result).ok
    THEN [pc |-> "closed", response |-> None, fs |-> h.fs]
    ELSE [pc |-> h.pc,
          response |-> IF IsSome(h.result) THEN Some(respond(Unwrap(h.result), id))
                       ELSE None,
          fs |-> h.fs]

\* A step of process_request: the step of the handler, its result (if it has
\* one) turned into the response.
Step(h, id) ==
    [pc |-> h.pc,
     response |-> IF IsSome(h.result) THEN Some(respond(Unwrap(h.result), id))
                  ELSE None,
     fs |-> h.fs]

\* A slip: the method name is matched without regard to case.
process_request_any_case(request, files) ==
    LET id == request_id(request)
        method == CASE request.method \in {"ReadFile", "readfile"} -> "readFile"
                    [] OTHER -> request.method
    IN CASE method = "readFile" ->
                Step(handle_read_file(request.params, files), id)
         [] method = "writeFile" ->
                Step(handle_write_file(request.params, files), id)
         [] method = "listFiles" ->
                Step(handle_list_files(request.params, files), id)
         [] OTHER ->
                [pc |-> "respond", response |-> Some(method_not_found(id)),
                 fs |-> files]

\* A slip: a request for a method that is not registered is dropped without
\* a response.
process_request_silent(request, files) ==
    LET id == request_id(request)
    IN CASE request.method = "readFile" ->
                Step(handle_read_file(request.params, files), id)
         [] request.method = "writeFile" ->
                Step(handle_write_file(request.params, files), id)
         [] request.method = "listFiles" ->
                Step(handle_list_files(request.params, files), id)
         [] OTHER ->
                [pc |-> "open", response |-> None, fs |-> files]

\* process_request up to the first file-system call of the handler
process_request(request, files) ==
    LET id == request_id(request)
    IN CASE request.method = "readFile" ->
                Step(handle_read_file(request.params, files), id)
         [] request.method = "writeFile" ->
                Step(handle_write_file(request.params, files), id)
         [] request.method = "listFiles" ->
                Step(handle_list_files(request.params, files), id)
         [] OTHER ->
                [pc |-> "respond", response |-> Some(method_not_found(id)),
                 fs |-> files]

\* handle_socket, match serde_json::from_str(&text)
on_text(txt, files) ==
    LET d == from_str(txt)
    IN IF d.ok THEN process_request(d.value, files)
       ELSE [pc |-> "respond", response |-> Some(parse_error), fs |-> files]

(***************************************************************************)
(* What the peers send.                                                    *)
(***************************************************************************)
ReqPaths == {"d", "d/ab", "d/b.txt", "nx/f"}

Request(method, params, id) == TextFrame(JStr("2.0"), JStr(method), params, id)
PathOnly(p) == JObj(JStr(p), Absent)
Shared == "d/b.txt"

\* Parameters every handler rejects
BadParams == {JNull, JObj(Absent, Absent), JObj(JNum(7), Absent)}

\* Frames that are no request: no JSON, or JSON that lacks a mandatory field
\* or gives it the wrong type
Undecodable ==
    {Garbage,
     TextFrame(Absent, JStr("readFile"), PathOnly(Shared), JNum(1)),
     TextFrame(JNum(2), JStr("readFile"), PathOnly(Shared), JNum(1)),
     TextFrame(JStr("2.0"), Absent, PathOnly(Shared), JNum(1)),
     TextFrame(JStr("2.0"), JStr("readFile"), Absent, JNum(1))}

ReadFrames ==
    {Request("readFile", p, JNum(1)) :
        p \in {PathOnly(q) : q \in ReqPaths} \cup BadParams
              \cup {JArr(<<JStr(Shared)>>), JObj(JStr(Shared), JStr("x"))}}

WriteFrames ==
    {Request("writeFile", p, JNum(1)) :
        p \in {JObj(JStr(q), JStr("x")) : q \in ReqPaths}
              \cup BadParams
              \cup {PathOnly(Shared), JObj(JStr(Shared), JNum(7)),
                    JArr(<<JStr(Shared), JStr("x")>>)}}

ListFrames ==
    {Request("listFiles", p, JNum(1)) :
        p \in {PathOnly(q) : q \in ReqPaths} \cup BadParams}

UnknownFrames ==
    {Request("ReadFile", JNull, JNum(1)),
     Request("ReadFile", JObj(JStr(Shared), JStr("x")), JNum(1)),
     Request("deleteFile", PathOnly(Shared), JNum(1))}

\* Requests with no id, a null id or a string id
OtherIds ==
    {Request(m[1], m[2], id) :
        m \in {<<"readFile", PathOnly(Shared)>>, <<"readFile", JNull>>,
               <<"writeFile", JObj(JStr(Shared), JStr("x"))>>,
               <<"listFiles", PathOnly("d")>>, <<"readfile", PathOnly(Shared)>>},
        id \in {Absent, JNull}}
    \cup {Request("readFile", PathOnly(Shared), JStr("a"))}

\* The first peer sends anything; the second is a plain client that writes
\* and reads the file both peers share.
Frames(t) ==
    IF t = "t1"
    THEN Undecodable \cup ReadFrames \cup WriteFrames \cup ListFrames
         \cup UnknownFrames \cup OtherIds
    ELSE {Request("writeFile", JObj(JStr(Shared), JStr("yy")), JNum(2)),
          Request("readFile", PathOnly(Shared), JNum(2))}

\* The file system the server starts on
InitialFiles ==
    [q \in Nodes |->
        CASE q \in {"d", "d/a", "d/c"} -> DirNode
          [] q = "d/b.txt" -> FileNode("hi")
          [] OTHER -> NoNode]

(***************************************************************************)
(* State                                                                   *)
(***************************************************************************)
VARIABLES
    CONNECTION_COUNTER,  \* the static AtomicU64
    connection_id,       \* per task: the id ws_handler gave it, if any
    pc,                  \* per task: where handle_socket is
    nframes,             \* per task: the text frames received so far
    msg,                 \* per task: the kind of the frame received last
    text,                \* per task: the text frame being processed, if any
    response,            \* per task: the response built for it, if any
    sent,                \* per task: the frames answered, in the order sent
    prev,                \* per task: the last exchange the loop completed
    exit,                \* per task: what ended handle_socket, if it ended
    fs,                  \* the file system
    writer               \* per path: the task whose writeFile has had the path
                         \* to itself since its File::create, if there is one

vars == <<CONNECTION_COUNTER, connection_id, pc, nframes, msg, text, response,
          sent, prev, exit, fs, writer>>

\* The frames task t may still receive
FrameLimit(t) == IF t = "t1" THEN MaxFrames ELSE MaxPeerFrames

Init ==
    /\ CONNECTION_COUNTER = 0
    /\ connection_id = [t \in Tasks |-> None]
    /\ pc = [t \in Tasks |-> "idle"]
    /\ nframes = [t \in Tasks |-> 0]
    /\ msg = [t \in Tasks |-> "none"]
    /\ text = [t \in Tasks |-> None]
    /\ response = [t \in Tasks |-> None]
    /\ sent = [t \in Tasks |-> <<>>]
    /\ prev = [t \in Tasks |-> None]
    /\ exit = [t \in Tasks |-> "running"]
    /\ fs = InitialFiles
    /\ writer = [q \in Nodes |-> "nobody"]

\* The request being processed by task t
CurrentRequest(t) == from_str(Unwrap(text[t])).value

\* The path a writeFile frame names
WritePath(f) == WriteFileParams(f.params).value.path

\* The upgrades arrive in the order t1, t2. The connection identifier is
\* only logged, so the other order gives the same behaviours with the
\* identifiers exchanged.
Arrives(t) == t = "t2" => pc["t1"] # "idle"

\* A slip: the counter is read and written back in two steps, and the
\* increment of an upgrade is lost.
ws_handler_stale(t) ==
    /\ pc[t] = "idle"
    /\ connection_id' = [connection_id EXCEPT ![t] = Some(CONNECTION_COUNTER)]
    /\ CONNECTION_COUNTER' = CONNECTION_COUNTER
    /\ pc' = [pc EXCEPT ![t] = "open"]
    /\ UNCHANGED <<nframes, msg, text, response, sent, prev, exit, fs, writer>>

(***************************************************************************)
(* ws_handler: CONNECTION_COUNTER.fetch_add(1), then handle_socket starts  *)
(***************************************************************************)
ws_handler(t) ==
    /\ pc[t] = "idle"
    /\ connection_id' = [connection_id EXCEPT ![t] = Some(CONNECTION_COUNTER)]
    /\ CONNECTION_COUNTER' = CONNECTION_COUNTER + 1
    /\ pc' = [pc EXCEPT ![t] = "open"]
    /\ UNCHANGED <<nframes, msg, text, response, sent, prev, exit, fs, writer>>

\* The router hands the next upgrade to ws_handler
Upgrade(t) == Arrives(t) /\ ws_handler(t)

\* A slip: the next frame is taken while the handler of the last is at a
\* file-system call.
RecvText_pipelined(t) ==
    /\ pc[t] \in {"open", "read", "write", "list"}
    /\ nframes[t] < FrameLimit(t)
    /\ \E f \in Frames(t) :
          LET st == on_text(f, fs)
          IN /\ text' = [text EXCEPT ![t] = Some(f)]
             /\ pc' = [pc EXCEPT ![t] = st.pc]
             /\ response' = [response EXCEPT ![t] = st.response]
             /\ fs' = st.fs
             /\ writer' = IF st.pc = "write"
                           THEN [writer EXCEPT ![WritePath(f)] = t]
                           ELSE writer
    /\ nframes' = [nframes EXCEPT ![t] = @ + 1]
    /\ msg' = [msg EXCEPT ![t] = "text"]
    /\ UNCHANGED <<CONNECTION_COUNTER, connection_id, sent, prev, exit>>

(***************************************************************************)
(* handle_socket: receiver.next().await                                    *)
(***************************************************************************)
\* Some(Ok(Message::Text(text))): decode and process up to the first
\* file-system call
RecvText(t) ==
    /\ pc[t] = "open"
    /\ nframes[t] < FrameLimit(t)
    /\ \E f \in Frames(t) :
          LET st == on_text(f, fs)
          IN /\ text' = [text EXCEPT ![t] = Some(f)]
             /\ pc' = [pc EXCEPT ![t] = st.pc]
             /\ response' = [response EXCEPT ![t] = st.response]
             /\ fs' = st.fs
             /\ writer' = IF st.pc = "write"
                           THEN [writer EXCEPT ![WritePath(f)] = t]
                           ELSE writer
    /\ nframes' = [nframes EXCEPT ![t] = @ + 1]
    /\ msg' = [msg EXCEPT ![t] = "text"]
    /\ UNCHANGED <<CONNECTION_COUNTER, connection_id, sent, prev, exit>>

\* handle_socket returns and its locals are dropped
Return(t) ==
    /\ msg' = [msg EXCEPT ![t] = "none"]
    /\ text' = [text EXCEPT ![t] = None]
    /\ response' = [response EXCEPT ![t] = None]
    /\ prev' = [prev EXCEPT ![t] = None]

\* A slip: the payload of a frame that is no text frame is decoded too.
RecvOther_decoded(t) ==
    /\ pc[t] = "open"
    /\ msg' = [msg EXCEPT ![t] = "other"]
    /\ pc' = [pc EXCEPT ![t] = "respond"]
    /\ text' = [text EXCEPT ![t] = Some(Garbage)]
    /\ response' = [response EXCEPT ![t] = Some(parse_error)]
    /\ UNCHANGED <<CONNECTION_COUNTER, connection_id, nframes, sent, prev, exit,
                   fs, writer>>

\* Some(Ok(msg)) with msg no Message::Text: the loop goes round
RecvOther(t) ==
    /\ pc[t] = "open"
    /\ msg' = [msg EXCEPT ![t] = "other"]
    /\ UNCHANGED <<CONNECTION_COUNTER, connection_id, pc, nframes, text, response,
                   sent, prev, exit, fs, writer>>

\* A slip: a receive error on one connection ends the loops of all.
RecvErr_all(t) ==
    /\ pc[t] = "open"
    /\ pc' = [u \in Tasks |-> IF pc[u] = "idle" THEN "idle" ELSE "closed"]
    /\ exit' = [u \in Tasks |-> IF pc[u] \in {"idle", "closed"} THEN exit[u]
                                ELSE "receive error"]
    /\ Return(t)
    /\ UNCHANGED <<CONNECTION_COUNTER, connection_id, nframes, sent, fs, writer>>

\* Some(Err(e)): return
RecvErr(t) ==
    /\ pc[t] = "open"
    /\ pc' = [pc EXCEPT ![t] = "closed"]
    /\ exit' = [exit EXCEPT ![t] = "receive error"]
    /\ Return(t)
    /\ UNCHANGED <<CONNECTION_COUNTER, connection_id, nframes, sent, fs, writer>>

\* A slip: the end of the stream is noted and the loop waits on.
RecvNone_waits(t) ==
    /\ pc[t] = "open"
    /\ exit' = [exit EXCEPT ![t] = "peer closed"]
    /\ UNCHANGED <<CONNECTION_COUNTER, connection_id, pc, nframes, msg, text,
                   response, sent, prev, fs, writer>>

\* None: the peer closed the stream, the loop ends
RecvNone(t) ==
    /\ pc[t] = "open"
    /\ pc' = [pc EXCEPT ![t] = "closed"]
    /\ exit' = [exit EXCEPT ![t] = "peer closed"]
    /\ Return(t)
    /\ UNCHANGED <<CONNECTION_COUNTER, connection_id, nframes, sent, fs, writer>>

(***************************************************************************)
(* The file-system calls a handler makes after its first                   *)
(***************************************************************************)
\* What process_request returns once the handler has its result
Finish(t, h) ==
    LET st == Step(h, request_id(CurrentRequest(t)))
    IN /\ pc' = [pc EXCEPT ![t] = st.pc]
       /\ response' = [response EXCEPT ![t] = st.response]
       /\ fs' = st.fs
       /\ UNCHANGED <<CONNECTION_COUNTER, connection_id, nframes, msg, text, sent,
                      prev, exit>>

\* A slip: the read waits while another connection is inside a writeFile,
\* as it would if the handlers took the shared mutex.
ReadStep_locked(t) ==
    /\ pc[t] = "read"
    /\ \A u \in Tasks \ {t} : pc[u] # "write"
    /\ Finish(t, Done(handle_read_file_read(CurrentRequest(t).params, fs), fs))
    /\ UNCHANGED writer

\* handle_read_file: fs::read_to_string
ReadStep(t) ==
    /\ pc[t] = "read"
    /\ Finish(t, Done(handle_read_file_read(CurrentRequest(t).params, fs), fs))
    /\ UNCHANGED writer

\* handle_write_file: file.write_all
WriteStep(t) ==
    /\ pc[t] = "write"
    /\ Finish(t, handle_write_file_write(CurrentRequest(t).params, fs))
    /\ writer' = [writer EXCEPT ![WritePath(Unwrap(text[t]))] =
                                    IF @ = t THEN t ELSE "several"]

\* handle_list_files: fs::read_dir, the loop over its entries, the sorts
ListStep(t) ==
    /\ pc[t] = "list"
    /\ \E entries \in Orders(read_dir(fs, ListFilesParams(CurrentRequest(t).params).value.path)) :
          Finish(t, Done(handle_list_files_list(fs, entries), fs))
    /\ UNCHANGED writer

(***************************************************************************)
(* handle_socket: serde_json::to_string(&response) and sender.send         *)
(***************************************************************************)
\* What is kept of a completed exchange: whether the frame decoded, whether
\* the response carries a result, what a successful writeFile wrote, and
\* whether the response was sent.
Exchange(t, was_sent) ==
    LET d == from_str(Unwrap(text[t]))
        r == Unwrap(response[t])
    IN [decoded |-> d.ok,
        ok |-> IsSome(r.result),
        wrote |-> IF d.ok /\ d.value.method = "writeFile" /\ IsSome(r.result)
                  THEN Some(WriteFileParams(d.value.params).value)
                  ELSE None,
        sent |-> was_sent]

\* A slip: the response is not dropped once it is dealt with, so that it is
\* sent again.
Continue_resend(t, was_sent) ==
    /\ prev' = [prev EXCEPT ![t] = Some(Exchange(t, was_sent))]
    /\ UNCHANGED <<pc, text, response>>

\* Back at the head of the loop
Continue(t, was_sent) ==
    /\ pc' = [pc EXCEPT ![t] = "open"]
    /\ prev' = [prev EXCEPT ![t] = Some(Exchange(t, was_sent))]
    /\ text' = [text EXCEPT ![t] = None]
    /\ response' = [response EXCEPT ![t] = None]

\* A slip: a failure to encode is answered with a fallback frame.
EncodeFail_fallback(t) ==
    /\ pc[t] = "respond"
    /\ sent' = [sent EXCEPT ![t] = Append(@, nframes[t])]
    /\ Continue(t, FALSE)
    /\ UNCHANGED <<CONNECTION_COUNTER, connection_id, nframes, msg, exit, fs, writer>>

\* to_string gives Err: continue, nothing is sent
EncodeFail(t) ==
    /\ pc[t] = "respond"
    /\ Continue(t, FALSE)
    /\ UNCHANGED <<CONNECTION_COUNTER, connection_id, nframes, msg, sent, exit, fs,
                   writer>>

\* to_string gives Ok and sender.send gives Ok
SendOk(t) ==
    /\ pc[t] = "respond"
    /\ sent' = [sent EXCEPT ![t] = Append(@, nframes[t])]
    /\ Continue(t, TRUE)
    /\ UNCHANGED <<CONNECTION_COUNTER, connection_id, nframes, msg, exit, fs, writer>>

\* to_string gives Ok and sender.send gives Err: return
SendFail(t) ==
    /\ pc[t] = "respond"
    /\ pc' = [pc EXCEPT ![t] = "closed"]
    /\ exit' = [exit EXCEPT ![t] = "send error"]
    /\ Return(t)
    /\ UNCHANGED <<CONNECTION_COUNTER, connection_id, nframes, sent, fs, writer>>

Next ==
    \E t \in Tasks :
        \/ Upgrade(t)
        \/ RecvText(t)
        \/ RecvOther(t)
        \/ RecvErr(t)
        \/ RecvNone(t)
        \/ ReadStep(t)
        \/ WriteStep(t)
        \/ ListStep(t)
        \/ EncodeFail(t)
        \/ SendOk(t)
        \/ SendFail(t)

Spec == Init /\ [][Next]_vars

\* The call task t is at comes to an end: the file-system call of its
\* handler returns, the encoding and the send of its response succeed or fail
Proceeds(t) ==
    \/ ReadStep(t)
    \/ WriteStep(t)
    \/ ListStep(t)
    \/ EncodeFail(t)
    \/ SendOk(t)
    \/ SendFail(t)

\* No task stays at a call for ever
Fairness == \A t \in Tasks : WF_vars(Proceeds(t))

\* A text frame, while the peer has sent fewer than MaxEarlyFrames
RecvTextEarly(t) == nframes[t] < MaxEarlyFrames /\ RecvText(t)

\* The same with the upgrades arriving in any order, each peer sending
\* MaxEarlyFrames text frames at most
NextAnyOrder ==
    \E t \in Tasks :
        \/ ws_handler(t)
        \/ RecvTextEarly(t)
        \/ RecvOther(t)
        \/ RecvErr(t)
        \/ RecvNone(t)
        \/ ReadStep(t)
        \/ WriteStep(t)
        \/ ListStep(t)
        \/ EncodeFail(t)
        \/ SendOk(t)
        \/ SendFail(t)

SpecAnyOrder == Init /\ [][NextAnyOrder]_vars

FairSpec == SpecAnyOrder /\ Fairness

(***************************************************************************)
(* Properties                                                              *)
(***************************************************************************)
Transport == {"peer closed", "receive error", "send error"}
Code(r) == Unwrap(r.error).code
IsError(r, code) == r.result = None /\ IsSome(r.error) /\ Code(r) = code

\* C1: on one connection the responses are sent in the order in which the
\* text frames that caused them were received: a response is sent only for
\* the frame being processed, every response sent before it answers an
\* earlier frame, and so no frame is answered twice.
C1_ResponsesInOrder ==
    [][\A t \in Tasks :
          sent'[t] # sent[t] =>
             /\ pc[t] = "respond"
             /\ sent'[t] = Append(sent[t], nframes[t])
             /\ \A i \in 1..Len(sent[t]) : sent[t][i] < nframes[t]]_vars

C1_Witness == sent["t1"] = <<1, 2>>

\* C2: no failure to process a request closes the connection: every text
\* frame received and every step of a handler ends with a response in hand,
\* the loop is back at the receive once the response is dealt with, and it
\* reaches Closed only from the receive or the send, by a transport event.
C2_FailuresKeepOpen ==
    [][\A t \in Tasks :
          /\ (pc[t] # "closed" /\ pc'[t] = "closed") =>
                /\ exit'[t] \in Transport
                /\ pc[t] \in {"open", "respond"}
                /\ pc[t] = "respond" <=> exit'[t] = "send error"
          /\ (pc[t] \in {"open", "read", "write", "list"} /\ pc'[t] = "respond") =>
                IsSome(response'[t])
          /\ (pc[t] \in {"read", "write", "list"} /\ pc'[t] # pc[t]) =>
                pc'[t] = "respond"
          /\ (pc[t] = "respond" /\ pc'[t] # "respond" /\ exit'[t] # "send error") =>
                pc'[t] = "open"]_vars

\* A request failed, its connection went on and is processing the next frame
C2_Witness ==
    \E t \in Tasks :
        /\ IsSome(prev[t])
        /\ Unwrap(prev[t]).decoded
        /\ ~Unwrap(prev[t]).ok
        /\ nframes[t] = 2
        /\ pc[t] = "respond"

\* C3: a text frame that does not decode gets the one response with code
\* -32700 and a null id, the loop is back at the receive after it unless the
\* send fails, and a request that follows is processed as a request (it
\* does not end the loop and its response is no parse error).
C3_ParseErrorKeepsOpen ==
    [][\A t \in Tasks :
          /\ (IsSome(text'[t]) /\ Unwrap(text'[t]) \in Undecodable) =>
                /\ pc'[t] = "respond"
                /\ IsSome(response'[t])
                /\ IsError(Unwrap(response'[t]), -32700)
                /\ Unwrap(response'[t]).id = JNull
          /\ (IsSome(text[t]) /\ Unwrap(text[t]) \in Undecodable /\ text'[t] = None) =>
                /\ pc'[t] = "open" \/ exit'[t] = "send error"
                /\ sent'[t] \in {sent[t], Append(sent[t], nframes[t])}
          /\ (/\ IsSome(prev[t]) /\ ~Unwrap(prev[t]).decoded
              /\ text[t] = None /\ IsSome(text'[t])
              /\ Unwrap(text'[t]) \notin Undecodable) =>
                /\ pc'[t] \in {"read", "write", "list", "respond"}
                /\ IsSome(response'[t]) => ~IsError(Unwrap(response'[t]), -32700)]_vars

\* The parse error was sent and the request after it has its result
C3_Witness ==
    \E t \in Tasks :
        /\ IsSome(prev[t])
        /\ ~Unwrap(prev[t]).decoded
        /\ Unwrap(prev[t]).sent
        /\ pc[t] = "respond"
        /\ IsSome(Unwrap(response[t]).result)

\* C4: a frame that is no text frame changes nothing: the loop stays at the
\* receive, no response is built or sent, no handler runs and the file
\* system is as it was.
C4_NonTextIgnored ==
    [][\A t \in Tasks :
          (msg'[t] = "other" /\ msg[t] # "other") =>
             /\ pc[t] = "open"
             /\ pc'[t] = "open"
             /\ text'[t] = None
             /\ response'[t] = None
             /\ UNCHANGED <<pc, nframes, text, response, sent, prev, exit, fs,
                            writer>>]_vars

\* A frame that is no text frame came after an answered request
C4_Witness ==
    \E t \in Tasks : msg[t] = "other" /\ sent[t] = <<1>> /\ pc[t] = "open"

\* C5: every response built has exactly one of result and error.
C5_ResultXorError ==
    \A t \in Tasks :
        IsSome(response[t]) =>
            IsSome(Unwrap(response[t]).result) # IsSome(Unwrap(response[t]).error)

C5_Witness ==
    \E t \in Tasks :
        /\ IsSome(response[t])
        /\ IsSome(Unwrap(response[t]).result)
        /\ Unwrap(response[t]).error = None

\* Task t receives a text frame in this step
Receives(t) == text[t] = None /\ IsSome(text'[t])

\* C6: a request whose method is none of readFile, writeFile, listFiles
\* (compared exactly) is answered with code -32601 and its own id, whatever
\* its params; no handler runs and the file system is not touched.
C6_UnknownMethod ==
    [][\A t \in Tasks :
          Receives(t) =>
          LET f == Unwrap(text'[t])
          IN (/\ f \notin Undecodable
              /\ f.method.s \notin {"readFile", "writeFile", "listFiles"}) =>
             /\ pc'[t] = "respond"
             /\ IsError(Unwrap(response'[t]), -32601)
             /\ Unwrap(response'[t]).id =
                   (IF f.id \in {Absent, JNull} THEN JNull ELSE f.id)
             /\ fs' = fs]_vars

\* A method that differs from readFile by case only, with params readFile
\* would take
C6_Witness ==
    \E t \in Tasks :
        /\ text[t] = Some(Request("ReadFile", JObj(JStr(Shared), JStr("x")), JNum(1)))
        /\ IsError(Unwrap(response[t]), -32601)
        /\ Unwrap(response[t]).id = JNum(1)

\* Task t, whose last exchange was a writeFile(p, c) that succeeded, gets
\* the content of p for its readFile(p) in this step
ReadsBack(t, p, c) ==
    /\ pc[t] = "read"
    /\ pc'[t] = "respond"
    /\ IsSome(prev[t])
    /\ Unwrap(prev[t]).wrote = Some([path |-> p, content |-> c])
    /\ ReadFileParams(CurrentRequest(t).params).value.path = p

\* C7 as stated: a writeFile(path, content) that succeeds, followed by a
\* readFile(path) on the same connection, returns content.
C7_RoundTrip_AsStated ==
    [][\A t \in Tasks : \A p \in ReqPaths : \A c \in {"x", "yy"} :
          ReadsBack(t, p, c) =>
             Unwrap(response'[t]).result = Some(JStr(c))]_vars

\* C7 as amended: the same, provided no writeFile of another connection has
\* created or written the path since the writeFile began.
C7_RoundTrip ==
    [][\A t \in Tasks : \A p \in ReqPaths : \A c \in {"x", "yy"} :
          (ReadsBack(t, p, c) /\ writer[p] = t) =>
             Unwrap(response'[t]).result = Some(JStr(c))]_vars

\* The content written is read back while the other connection is active
C7_Witness ==
    \E t \in Tasks :
        /\ IsSome(prev[t])
        /\ Unwrap(prev[t]).wrote = Some([path |-> Shared, content |-> "x"])
        /\ text[t] = Some(Request("readFile", PathOnly(Shared), JNum(1)))
        /\ pc[t] = "respond"
        /\ writer[Shared] = t
        /\ Unwrap(response[t]).result = Some(JStr("x"))
        /\ \E u \in Tasks \ {t} : pc[u] = "read"

\* C8: readFile with params that lack the path, or are malformed otherwise,
\* gets code -32602 in every state of the file system; readFile with a
\* string path that does not exist gets code -32001.
C8_ReadFileErrors ==
    [][\A t \in Tasks :
          Receives(t) =>
          LET f == Unwrap(text'[t])
          IN (f \notin Undecodable /\ f.method.s = "readFile") =>
             /\ (f.params \in BadParams \/ (f.params.t = "obj" /\ f.params.path = Absent)) =>
                   /\ pc'[t] = "respond"
                   /\ IsError(Unwrap(response'[t]), -32602)
             /\ (/\ f.params.t = "obj"
                 /\ IsStr(f.params.path)
                 /\ ~exists(fs, f.params.path.s)) =>
                   /\ pc'[t] = "respond"
                   /\ IsError(Unwrap(response'[t]), -32001)]_vars

\* Params without a path are rejected on a file system that has changed
C8_Witness ==
    \E t \in Tasks :
        /\ text[t] = Some(Request("readFile", JObj(Absent, Absent), JNum(1)))
        /\ IsError(Unwrap(response[t]), -32602)
        /\ exists(fs, "d/ab")

\* C9: listFiles on a path that is missing, or that is no directory, gets
\* code -32003, which is neither -32001 nor -32002.
C9_ListFilesDirectoryError ==
    [][\A t \in Tasks :
          Receives(t) =>
          LET f == Unwrap(text'[t])
          IN (/\ f \notin Undecodable
           /\ f.method.s = "listFiles"
           /\ f.params.t = "obj"
           /\ IsStr(f.params.path)
           /\ ~is_dir(fs, f.params.path.s)) =>
             /\ pc'[t] = "respond"
             /\ IsError(Unwrap(response'[t]), -32003)
             /\ Code(Unwrap(response'[t])) \notin {FILE_NOT_FOUND_CODE, IO_ERROR_CODE}]_vars

\* listFiles on a regular file
C9_Witness ==
    \E t \in Tasks :
        /\ text[t] = Some(Request("listFiles", PathOnly(Shared), JNum(1)))
        /\ fs[Shared].kind = "file"
        /\ IsError(Unwrap(response[t]), -32003)

\* The names of the model in ascending byte order
Ascending == <<"a", "ab", "b.txt", "c">>
Rank(name) == CHOOSE i \in 1..Len(Ascending) : Ascending[i] = name

\* C10: the result of listFiles is the direct children of the directory,
\* each once, directories before files and names ascending within each;
\* a file entry carries its size, a directory entry has none.
C10_ListingOrdered ==
    [][\A t \in Tasks :
          (pc[t] = "list" /\ pc'[t] = "respond") =>
             LET dir == ListFilesParams(CurrentRequest(t).params).value.path
                 kids == read_dir(fs, dir)
                 r == Unwrap(response'[t])
                 L == Unwrap(r.result).a
             IN /\ r.error = None
                /\ Len(L) = Cardinality(kids)
                /\ \A q \in kids : \E i \in 1..Len(L) :
                      /\ L[i].name = FileName(q)
                      /\ L[i].type = (IF fs[q].kind = "dir" THEN "directory" ELSE "file")
                      /\ DOMAIN L[i] = (IF fs[q].kind = "dir" THEN {"name", "type"}
                                         ELSE {"name", "type", "size"})
                      /\ fs[q].kind = "file" => L[i].size = Len(fs[q].content)
                /\ \A i, j \in 1..Len(L) :
                      i < j =>
                         /\ L[i].type = "file" => L[j].type = "file"
                         /\ L[i].type = L[j].type => Rank(L[i].name) < Rank(L[j].name)
                /\ kids = {"d/a", "d/b.txt", "d/c"} =>
                      [i \in 1..Len(L) |-> L[i].name] = <<"a", "c", "b.txt">>]_vars

\* Two directories and two files, listed
C10_Witness ==
    \E t \in Tasks :
        /\ text[t] = Some(Request("listFiles", PathOnly("d"), JNum(1)))
        /\ pc[t] = "respond"
        /\ IsSome(Unwrap(response[t]).result)
        /\ Unwrap(Unwrap(response[t]).result) =
              JArr(<<[name |-> "a", type |-> "directory"],
                     [name |-> "c", type |-> "directory"],
                     [name |-> "ab", type |-> "file", size |-> 1],
                     [name |-> "b.txt", type |-> "file", size |-> 2]>>)

\* C12: the response to a request that decodes carries the id of the
\* request, whatever the method and the outcome; a request with no id or a
\* null id has its response all the same, with id null.
C12_IdEchoed ==
    \A t \in Tasks :
        (IsSome(text[t]) /\ Unwrap(text[t]) \notin Undecodable) =>
           LET f == Unwrap(text[t])
           IN /\ pc[t] = "respond" => IsSome(response[t])
              /\ IsSome(response[t]) =>
                    Unwrap(response[t]).id =
                       (IF f.id \in {Absent, JNull} THEN JNull ELSE f.id)

\* A listFiles request without an id has its result, with id null, and a
\* failed readFile before it was answered
C12_Witness ==
    \E t \in Tasks :
        /\ text[t] = Some(Request("listFiles", PathOnly("d"), Absent))
        /\ pc[t] = "respond"
        /\ IsSome(Unwrap(response[t]).result)
        /\ Unwrap(response[t]).id = JNull
        /\ IsSome(prev[t])
        /\ Unwrap(prev[t]).decoded
        /\ ~Unwrap(prev[t]).ok
        /\ Unwrap(prev[t]).sent

\* C20: a text frame that is JSON and names a method but has no jsonrpc or
\* no params does not decode: its response is the parse error -32700 with a
\* null id, whatever id the frame has; no handler runs, so the response is
\* neither -32601 nor -32602 and the file system is as it was.
C20_MissingFieldIsParseError ==
    [][\A t \in Tasks :
          Receives(t) =>
          LET f == Unwrap(text'[t])
          IN (/\ f.json
              /\ IsStr(f.method)
              /\ f.jsonrpc = Absent \/ f.params = Absent) =>
             /\ pc'[t] = "respond"
             /\ IsError(Unwrap(response'[t]), -32700)
             /\ Code(Unwrap(response'[t])) \notin {-32601, -32602}
             /\ Unwrap(response'[t]).id = JNull
             /\ fs' = fs]_vars

\* A readFile frame with an id and no params, answered with the parse error
C20_Witness ==
    \E t \in Tasks :
        /\ text[t] = Some(TextFrame(JStr("2.0"), JStr("readFile"), Absent, JNum(1)))
        /\ pc[t] = "respond"
        /\ IsError(Unwrap(response[t]), -32700)
        /\ Unwrap(response[t]).id = JNull

\* C14: a connection is Closed exactly when its peer closed the stream, a
\* receive failed or a send failed; once Closed it stays Closed, takes no
\* frame, runs no handler and sends nothing.
C14_ClosedIsTerminal ==
    [][\A t \in Tasks :
          /\ pc'[t] = "closed" <=> exit'[t] \in Transport
          /\ exit'[t] \in Transport \cup {"running"}
          /\ (pc[t] # "closed" /\ pc'[t] = "closed") =>
                \/ pc[t] = "open" /\ exit'[t] \in {"peer closed", "receive error"}
                \/ pc[t] = "respond" /\ exit'[t] = "send error"
          /\ pc[t] = "closed" =>
                /\ pc'[t] = "closed"
                /\ exit'[t] = exit[t]
                /\ nframes'[t] = nframes[t]
                /\ msg'[t] = msg[t]
                /\ text'[t] = None
                /\ response'[t] = None
                /\ sent'[t] = sent[t]]_vars

\* A connection closed by its peer after one answered request, with frames
\* it could still have taken, while the other connection is being served
C14_Witness ==
    /\ pc["t1"] = "closed"
    /\ exit["t1"] = "peer closed"
    /\ nframes["t1"] = 1
    /\ sent["t1"] = <<1>>
    /\ pc["t2"] = "respond"

\* C15: when the response cannot be encoded nothing is sent for the
\* request, the connection stays Open and what the request did to the file
\* system stays; the frame that follows is received and processed.
C15_EncodeFailureDropsResponse ==
    [][\A t \in Tasks :
          /\ (/\ pc[t] = "respond"
              /\ pc'[t] # "respond"
              /\ IsSome(prev'[t])
              /\ ~Unwrap(prev'[t]).sent) =>
                /\ sent'[t] = sent[t]
                /\ pc'[t] = "open"
                /\ exit'[t] = "running"
                /\ fs' = fs
          /\ (pc[t] = "respond" /\ pc'[t] # "respond") =>
                \/ /\ pc'[t] = "open"
                   /\ IsSome(prev'[t])
                   /\ sent'[t] = (IF Unwrap(prev'[t]).sent
                                  THEN Append(sent[t], nframes[t]) ELSE sent[t])
                \/ pc'[t] = "closed" /\ exit'[t] = "send error" /\ sent'[t] = sent[t]
          /\ (/\ IsSome(prev[t])
              /\ ~Unwrap(prev[t]).sent
              /\ Receives(t)) =>
                /\ pc[t] = "open"
                /\ nframes'[t] = nframes[t] + 1
                /\ pc'[t] \in {"read", "write", "list", "respond"}
                /\ pc'[t] = "respond" => IsSome(response'[t])]_vars

\* The response to a writeFile was dropped; the file has the content and
\* the readFile that followed returns it
C15_Witness ==
    \E t \in Tasks :
        /\ IsSome(prev[t])
        /\ ~Unwrap(prev[t]).sent
        /\ Unwrap(prev[t]).wrote = Some([path |-> "d/ab", content |-> "x"])
        /\ sent[t] = <<>>
        /\ fs["d/ab"] = FileNode("x")
        /\ pc[t] = "respond"
        /\ Unwrap(response[t]).result = Some(JStr("x"))

\* C16: a connection has one request in hand at most: a frame is taken only
\* at the receive, with no request in hand and the response to the one
\* before either sent or dropped; the request in hand stays the same until
\* the loop is done with it.
C16_OneRequestAtATime ==
    [][\A t \in Tasks :
          /\ nframes'[t] # nframes[t] =>
                /\ pc[t] = "open"
                /\ text[t] = None
                /\ response[t] = None
                /\ nframes'[t] = nframes[t] + 1
                /\ IsSome(text'[t])
                /\ nframes[t] > 0 =>
                      /\ IsSome(prev[t])
                      /\ Unwrap(prev[t]).sent <=>
                            (sent[t] # <<>> /\ sent[t][Len(sent[t])] = nframes[t])
          /\ IsSome(text[t]) => text'[t] \in {text[t], None}
          /\ IsSome(text'[t]) <=> pc'[t] \in {"read", "write", "list", "respond"}
          /\ IsSome(response'[t]) <=> pc'[t] = "respond"]_vars

\* The second request is at its file-system call; the first was answered
C16_Witness ==
    \E t \in Tasks :
        /\ nframes[t] = 2
        /\ sent[t] = <<1>>
        /\ pc[t] = "write"
        /\ IsSome(prev[t])
        /\ Unwrap(prev[t]).sent

\* What belongs to the connection of task u
Local(u) ==
    <<connection_id[u], pc[u], nframes[u], msg[u], text[u], response[u],
      sent[u], prev[u], exit[u]>>

\* C17: a peer close, receive error or send error on one connection closes
\* that connection and nothing else: what every other connection has in
\* hand, the counter and the file system are as they were, and the read,
\* the write or the send a connection is at stays possible beside a closed
\* connection.
C17_FailureIsLocal ==
    /\ [](\A t \in Tasks : \A u \in Tasks \ {t} :
             pc[t] = "closed" =>
                /\ pc[u] = "read" => ENABLED ReadStep(u)
                /\ pc[u] = "write" => ENABLED WriteStep(u)
                /\ pc[u] = "respond" => ENABLED SendOk(u))
    /\ [][\A t \in Tasks :
             (pc[t] # "closed" /\ pc'[t] = "closed") =>
                /\ exit'[t] \in Transport
                /\ \A u \in Tasks \ {t} : Local(u)' = Local(u)
                /\ fs' = fs
                /\ writer' = writer
                /\ CONNECTION_COUNTER' = CONNECTION_COUNTER]_vars

\* One connection ended on a send error while the other has a writeFile at
\* its write and an answered request behind it
C17_Witness ==
    /\ pc["t1"] = "write"
    /\ sent["t1"] = <<1>>
    /\ pc["t2"] = "closed"
    /\ exit["t2"] = "send error"

\* A writeFile frame whose params deserialize as WriteFileParams
IsValidWrite(f) ==
    /\ f \notin Undecodable
    /\ f.method = JStr("writeFile")
    /\ \/ f.params.t = "obj" /\ IsStr(f.params.path) /\ IsStr(f.params.content)
       \/ /\ f.params.t = "arr"
          /\ Len(f.params.a) = 2
          /\ \A i \in 1..2 : IsStr(f.params.a[i])

\* C19: the file system changes only in a step of a connection that has a
\* writeFile request with valid params in hand, and only at the path it
\* names; every other step (readFile, listFiles, an unknown method, a frame
\* that does not decode, a frame that is no text, rejected params) leaves
\* every file as it was.
C19_OnlyValidWritesChangeFiles ==
    [][fs' # fs =>
          \E t \in Tasks :
             /\ pc'[t] # pc[t]
             /\ IsSome(text'[t])
             /\ IsValidWrite(Unwrap(text'[t]))
             /\ \A q \in Nodes :
                   q # WritePath(Unwrap(text'[t])) => fs'[q] = fs[q]]_vars

\* A writeFile without content is rejected and the file it names is as it
\* was at the start, on a file system an earlier writeFile has changed
C19_Witness ==
    \E t \in Tasks :
        /\ text[t] = Some(Request("writeFile", PathOnly(Shared), JNum(1)))
        /\ IsError(Unwrap(response[t]), -32602)
        /\ fs[Shared] = FileNode("hi")
        /\ fs["d/ab"] = FileNode("x")

\* C13: the connection identifiers are unique and grow in the order of
\* allocation, whatever the order of the upgrades: no two connections have
\* the same identifier, an upgrade takes the value of the counter and is
\* above every identifier given before, a connection keeps its identifier,
\* and the counter has counted every upgrade.
C13_IdentifiersUnique ==
    [][/\ \A t, u \in Tasks :
             (t # u /\ IsSome(connection_id'[t]) /\ IsSome(connection_id'[u])) =>
                Unwrap(connection_id'[t]) # Unwrap(connection_id'[u])
       /\ CONNECTION_COUNTER' = Cardinality({t \in Tasks : IsSome(connection_id'[t])})
       /\ \A t \in Tasks :
             /\ IsSome(connection_id[t]) => connection_id'[t] = connection_id[t]
             /\ connection_id'[t] # connection_id[t] =>
                   /\ connection_id'[t] = Some(CONNECTION_COUNTER)
                   /\ CONNECTION_COUNTER' = CONNECTION_COUNTER + 1
                   /\ \A u \in Tasks :
                         IsSome(connection_id[u]) =>
                            Unwrap(connection_id[u]) < Unwrap(connection_id'[t])]_vars

\* The upgrade of the second peer came first
C13_Witness ==
    /\ connection_id["t2"] = Some(0)
    /\ connection_id["t1"] = Some(1)
    /\ CONNECTION_COUNTER = 2

\* C18: the handlers of different connections share the file system with
\* no lock: a handler at its read or write does not wait for a writeFile
\* that another connection is inside, a writeFile creates or truncates its file whatever another
\* connection is doing to it, and a readFile returns what the file holds
\* at that moment, be it the state between the create and the write of a
\* writeFile on another connection.
C18_NoCoordination ==
    /\ [](\A t \in Tasks : \A u \in Tasks \ {t} :
             pc[u] = "write" =>
                /\ pc[t] = "read" => ENABLED ReadStep(t)
                /\ pc[t] = "write" => ENABLED WriteStep(t))
    /\ [][\A t \in Tasks :
             /\ (pc[t] = "read" /\ pc'[t] = "respond") =>
                   LET p == ReadFileParams(CurrentRequest(t).params).value.path
                   IN IF fs[p].kind = "file"
                      THEN Unwrap(response'[t]).result = Some(JStr(fs[p].content))
                      ELSE IsError(Unwrap(response'[t]), -32002)
             /\ (/\ Receives(t)
                 /\ IsValidWrite(Unwrap(text'[t]))
                 /\ WritePath(Unwrap(text'[t])) = Shared) =>
                   /\ pc'[t] = "write"
                   /\ fs'[Shared] = FileNode("")]_vars

\* A readFile has returned the empty content of a file that held "hi" and
\* that the writeFile of the other connection, still at its write, is
\* about to fill
C18_Witness ==
    /\ text["t1"] = Some(Request("readFile", PathOnly(Shared), JNum(1)))
    /\ pc["t1"] = "respond"
    /\ Unwrap(response["t1"]).result = Some(JStr(""))
    /\ nframes["t1"] = 1
    /\ pc["t2"] = "write"
    /\ writer[Shared] = "t2"

\* Task t has its n-th text frame in hand, a request with an id
InHand(t, n) ==
    /\ nframes[t] = n
    /\ IsSome(text[t])
    /\ Unwrap(text[t]) \notin Undecodable
    /\ Unwrap(text[t]).id \notin {Absent, JNull}

\* The response to the n-th text frame of task t was sent
Answered(t, n) == \E i \in 1..Len(sent[t]) : sent[t][i] = n

\* The response to the n-th text frame of task t could not be encoded
Dropped(t, n) ==
    /\ nframes[t] = n
    /\ pc[t] = "open"
    /\ IsSome(prev[t])
    /\ ~Unwrap(prev[t]).sent

\* C11 as stated: a request with an id that a connection has received gets
\* its response in the end, unless the connection is closed first.
C11_EventuallyAnswered_AsStated ==
    \A t \in Tasks : \A n \in 1..FrameLimit(t) :
        InHand(t, n) ~> (Answered(t, n) \/ pc[t] = "closed")

\* C11 as amended: the same, unless the response cannot be encoded.
C11_EventuallyAnswered ==
    \A t \in Tasks : \A n \in 1..FrameLimit(t) :
        InHand(t, n) ~> (Answered(t, n) \/ Dropped(t, n) \/ pc[t] = "closed")

\* A request that failed in its handler was answered, while the other
\* connection has its own request in hand
C11_Witness ==
    \E t \in Tasks :
        /\ Answered(t, 1)
        /\ \E u \in Tasks \ {t} : InHand(u, 1)
        /\ pc[t] = "open"
        /\ IsSome(prev[t])
        /\ Unwrap(prev[t]).decoded
        /\ ~Unwrap(prev[t]).ok

====
